---- MODULE Spec2Model ----
(***************************************************************************)
(* A model of the 15-puzzle solver of src/BPASourceCodeFile.py: the input  *)
(* parser (to_int_arr), the PuzzleState node (heuristics h1 and h2, move   *)
(* cost, move, expand), the best-first driver solve with its open list     *)
(* (a heapq of (priority, id_no, state) tuples) and closed list, the path  *)
(* reconstruction (get_parent_state, get_state_path) and solve_all, which  *)
(* runs bfs, a_star_h1 and a_star_h2 one after the other.                  *)
(*                                                                         *)
(* Python lists are 0-based; a board is modelled as a TLA+ sequence and    *)
(* read through PyGet, which keeps Python's indexing (negative indices     *)
(* count from the end).                                                    *)
(***************************************************************************)
EXTENDS Integers, Sequences, FiniteSets, TLC

(***************************************************************************)
(* Bounds of the model.                                                    *)
(***************************************************************************)
\* Start boards are the boards at most MaxScramble slides away from goal_board.
MaxScramble == 2
\* id(self) is a memory address: distinct among live objects, in no fixed
\* order.  At most MaxReuse constructions of one run of solve land on an
\* address below every live PuzzleState; the others land above all of them.
MaxReuse == 1

(***************************************************************************)
(* Program constants.                                                      *)
(***************************************************************************)
\* parent_id=None, the default of PuzzleState.__init__ (the root's parent).
NoParent == 0
\* goal_state=None, the default of PuzzleState.__init__.
NoGoal == <<>>
\* The sample goal board of the source.
goal_board_fixture == <<1, 2, 3, 4, 5, 6, 7, 8, 9, 10, 11, 12, 13, 14, 15, 0>>
\* The three calls of solve_all, in order.
Methods == <<"bfs", "a_star_h1", "a_star_h2">>
\* The dirs table of PuzzleState.move.
dirs == [up |-> -4, right |-> 1, down |-> 4, left |-> -1]

(***************************************************************************)
(* Python list access.                                                     *)
(***************************************************************************)
\* lst[i] of Python for -len <= i < len.
PyGet(lst, i) == IF i < 0 THEN lst[Len(lst) + i + 1] ELSE lst[i + 1]

\* i is an index Python accepts for lst.
PyInRange(lst, i) == i >= 0 - Len(lst) /\ i < Len(lst)

Abs(x) == IF x < 0 THEN 0 - x ELSE x

Min2(a, b) == IF a < b THEN a ELSE b

(***************************************************************************)
(* to_2d_array: rows of four cells, the last one shorter when the length   *)
(* is not a multiple of four.                                              *)
(***************************************************************************)
RECURSIVE RowsFrom(_, _, _)
RowsFrom(one_d_board, i, n) ==
    IF i >= n THEN <<>>
    ELSE <<SubSeq(one_d_board, i * 4 + 1, Min2((i + 1) * 4, Len(one_d_board)))>>
         \o RowsFrom(one_d_board, i + 1, n)

\* A variant of to_2d_array that fills the grid column by column.
to_2d_array_by_columns(one_d_board) ==
    [r \in 1..4 |-> [c \in 1..4 |-> one_d_board[4 * (c - 1) + r]]]

to_2d_array(one_d_board) ==
    RowsFrom(one_d_board, 0, (Len(one_d_board) + 4 - 1) \div 4)

\* flatten of the older file: the items of the sublists, row after row.
RECURSIVE flatten(_)
flatten(l) == IF l = <<>> THEN <<>> ELSE Head(l) \o flatten(Tail(l))

(***************************************************************************)
(* val_multiplier: the weight of a tile.  Python returns None for a value  *)
(* outside 0..15.                                                          *)
(***************************************************************************)
val_multiplier(val) ==
    CASE val = 0 -> 0
      [] 0 < val /\ val < 10 -> 1
      [] 10 <= val /\ val <= 15 -> 10
      [] OTHER -> "None"

(***************************************************************************)
(* PuzzleState.find: scans rows 0..3 and columns 0..3 of the 2D board.     *)
(* The result is the (row, col) of the first match, None when the scan     *)
(* ends without one, or an IndexError when the scan walks off a short row. *)
(***************************************************************************)
RECURSIVE FindFrom(_, _, _)
FindFrom(board_state, val, k) ==
    IF k = 16 THEN [kind |-> "None"]
    ELSE LET row == k \div 4
             col == k % 4
         IN  IF row + 1 > Len(board_state) \/ col + 1 > Len(board_state[row + 1])
             THEN [kind |-> "IndexError"]
             ELSE IF board_state[row + 1][col + 1] = val
                  THEN [kind |-> "ok", row |-> row, col |-> col]
                  ELSE FindFrom(board_state, val, k + 1)

\* A variant of find that returns the column first.
find_column_first(board_state_1d, val) ==
    CHOOSE r \in {IF f.kind = "ok"
                  THEN [kind |-> "ok", row |-> f.col, col |-> f.row] ELSE f :
                     f \in {FindFrom(to_2d_array(board_state_1d), val, 0)}} : TRUE

\* (The one-element set makes the 2D board a value computed once per call.)
find(board_state_1d, val) ==
    CHOOSE r \in {FindFrom(board_state, val, 0) :
                     board_state \in {to_2d_array(board_state_1d)}} : TRUE

(***************************************************************************)
(* estimated_cost_to_goal_h1: the weights of the cells that differ from    *)
(* the goal's, minus one; 0 without a goal.                                *)
(***************************************************************************)
RECURSIVE H1Count(_, _, _)
H1Count(board, goal, idx) ==
    IF idx >= Len(board) THEN 0
    ELSE (IF PyGet(board, idx) # PyGet(goal, idx)
          THEN val_multiplier(PyGet(board, idx)) ELSE 0)
         + H1Count(board, goal, idx + 1)

\* A variant of h1 without the final "- 1".
estimated_cost_to_goal_h1_no_minus(board, goal) ==
    IF goal = NoGoal THEN 0 ELSE H1Count(board, goal, 0)

estimated_cost_to_goal_h1(board, goal) ==
    IF goal = NoGoal THEN 0 ELSE H1Count(board, goal, 0) - 1

\* h1 raises IndexError when the goal is shorter than the board.
H1Raises(board, goal) == goal # NoGoal /\ Len(goal) < Len(board)

(***************************************************************************)
(* estimated_cost_to_goal_h2: weighted Manhattan distance of tiles 1..15.  *)
(***************************************************************************)
RECURSIVE H2Total(_, _, _)
H2Total(board, goal, piece) ==
    IF piece >= 16 THEN 0
    ELSE CHOOSE total \in
            {val_multiplier(piece)
                 * (Abs(gl.row - cur.row) + Abs(gl.col - cur.col))
               + H2Total(board, goal, piece + 1) :
                cur \in {find(board, piece)}, gl \in {find(goal, piece)}} : TRUE

\* A variant of h2 that counts every distance twice.
estimated_cost_to_goal_h2_doubled(board, goal) ==
    IF goal = NoGoal THEN 0 ELSE 2 * H2Total(board, goal, 1)

estimated_cost_to_goal_h2(board, goal) ==
    IF goal = NoGoal THEN 0 ELSE H2Total(board, goal, 1)

\* h2 raises when a find fails: IndexError inside find, or TypeError when
\* the None it returned is unpacked.
H2Raises(board, goal) ==
    /\ goal # NoGoal
    /\ \E piece \in 1..15 :
          find(board, piece).kind # "ok" \/ find(goal, piece).kind # "ok"

(***************************************************************************)
(* PuzzleState.__init__.  The fields are those of the class; board_state   *)
(* (the 2D view) is to_2d_array of board_state_1d and goal_puzzle_state is *)
(* the one goal node of the run, so neither is stored per node.            *)
(***************************************************************************)
PuzzleState(id_no, board_state_1d, goal, parent_id, depth, cost_so_far) ==
    CHOOSE self \in
        {[parent_id      |-> parent_id,
          id_no          |-> id_no,
          board_state_1d |-> board_state_1d,
          h1_of_n        |-> h1,
          h2_of_n        |-> h2,
          g_of_n         |-> cost_so_far,
          f1_of_n        |-> cost_so_far + h1,
          f2_of_n        |-> cost_so_far + h2,
          depth          |-> depth] :
            h1 \in {estimated_cost_to_goal_h1(board_state_1d, goal)},
            h2 \in {estimated_cost_to_goal_h2(board_state_1d, goal)}} : TRUE

PuzzleStateRaises(board_state_1d, goal) ==
    H1Raises(board_state_1d, goal) \/ H2Raises(board_state_1d, goal)

\* list.index(0): the first position of the blank.
IndexOfZero(board_state_1d) ==
    CHOOSE i \in 0..(Len(board_state_1d) - 1) :
        /\ PyGet(board_state_1d, i) = 0
        /\ \A j \in 0..(i - 1) : PyGet(board_state_1d, j) # 0

(***************************************************************************)
(* PuzzleState.move_cost: the weight of the tile at target_pos; Python     *)
(* returns None when that cell holds the blank or a value above 15.        *)
(***************************************************************************)
\* A variant of move_cost that weighs the cell the blank is in.
move_cost_blank(board_state_1d, target_pos) ==
    val_multiplier(PyGet(board_state_1d, IndexOfZero(board_state_1d)))

\* A variant of move_cost with the weights of the older file's comment
\* (tiles 10-15: 2 units).
move_cost_2units(board_state_1d, target_pos) ==
    LET val_being_moved == PyGet(board_state_1d, target_pos)
    IN  IF 0 < val_being_moved /\ val_being_moved < 10 THEN 1 ELSE 2

move_cost(board_state_1d, target_pos) ==
    LET val_being_moved == PyGet(board_state_1d, target_pos)
    IN  CASE 0 < val_being_moved /\ val_being_moved < 10 -> 1
          [] 10 <= val_being_moved /\ val_being_moved <= 15 -> 10
          [] OTHER -> "None"

(***************************************************************************)
(* PuzzleState.move: the cost is read from the board before the swap, the  *)
(* swap is made in a copy, and the successor is a new PuzzleState with     *)
(* this node as parent.  new_id is the id() of the new object.             *)
(***************************************************************************)
\* The position Python's lst[i] reads or writes, as an index of the sequence.
PyIdx(lst, i) == IF i < 0 THEN Len(lst) + i + 1 ELSE i + 1

\* A variant of move that makes no swap: the successor keeps the board of
\* the node it comes from.
move_without_swap(state, goal, direction, new_id) ==
    LET zero_pos    == IndexOfZero(state.board_state_1d)
        target_pos  == zero_pos + dirs[direction]
        cost_so_far == state.g_of_n + move_cost(state.board_state_1d, target_pos)
    IN  PuzzleState(new_id, state.board_state_1d, goal, state.id_no,
                    state.depth + 1, cost_so_far)

move(state, goal, direction, new_id) ==
    LET zero_pos    == IndexOfZero(state.board_state_1d)
        target_pos  == zero_pos + dirs[direction]
        cost        == move_cost(state.board_state_1d, target_pos)
        cost_so_far == state.g_of_n + cost
        new_board   == [state.board_state_1d EXCEPT
                          ![PyIdx(state.board_state_1d, zero_pos)] =
                              PyGet(state.board_state_1d, target_pos),
                          ![PyIdx(state.board_state_1d, target_pos)] =
                              PyGet(state.board_state_1d, zero_pos)]
    IN  CHOOSE successor \in
            {PuzzleState(new_id, b, goal, state.id_no, state.depth + 1, c) :
                b \in {new_board}, c \in {cost_so_far}} : TRUE

(***************************************************************************)
(* The valid_moves list of PuzzleState.expand: up, down, left, right, each *)
(* kept when the blank stays on the 4x4 grid.                              *)
(***************************************************************************)
\* A variant of valid_moves that never moves the blank up.
valid_moves_no_up(board_state_1d) ==
    LET z == find(board_state_1d, 0)
    IN  (IF z.row < 3 THEN <<"down">> ELSE <<>>)
        \o (IF z.col > 0 THEN <<"left">> ELSE <<>>)
        \o (IF z.col < 3 THEN <<"right">> ELSE <<>>)

\* A variant of valid_moves that never moves the blank right.
valid_moves_no_right(board_state_1d) ==
    LET z == find(board_state_1d, 0)
    IN  (IF z.row > 0 THEN <<"up">> ELSE <<>>)
        \o (IF z.row < 3 THEN <<"down">> ELSE <<>>)
        \o (IF z.col > 0 THEN <<"left">> ELSE <<>>)

\* A variant of valid_moves with every comparison turned round.
valid_moves_flipped(board_state_1d) ==
    LET z == find(board_state_1d, 0)
    IN  (IF z.row < 0 THEN <<"up">> ELSE <<>>)
        \o (IF z.row > 3 THEN <<"down">> ELSE <<>>)
        \o (IF z.col < 0 THEN <<"left">> ELSE <<>>)
        \o (IF z.col > 3 THEN <<"right">> ELSE <<>>)

\* A variant of valid_moves that lets the blank go left from column 0.
valid_moves_left_wrap(board_state_1d) ==
    LET z == find(board_state_1d, 0)
    IN  (IF z.row > 0 THEN <<"up">> ELSE <<>>)
        \o (IF z.row < 3 THEN <<"down">> ELSE <<>>)
        \o (IF z.col >= 0 THEN <<"left">> ELSE <<>>)
        \o (IF z.col < 3 THEN <<"right">> ELSE <<>>)

valid_moves(board_state_1d) ==
    LET z == find(board_state_1d, 0)
    IN  (IF z.row > 0 THEN <<"up">> ELSE <<>>)
        \o (IF z.row < 3 THEN <<"down">> ELSE <<>>)
        \o (IF z.col > 0 THEN <<"left">> ELSE <<>>)
        \o (IF z.col < 3 THEN <<"right">> ELSE <<>>)

\* expand raises when its find(0) does (a board of fewer than 16 cells
\* without a blank), before any successor is constructed.
ExpandRaises(state) == find(state.board_state_1d, 0).kind # "ok"

\* A variant of expand that returns no successor.
expand_none(state, goal, new_ids) == <<>>

\* PuzzleState.expand: list(map(self.move, valid_moves)); new_ids are the
\* id()s of the successors, in construction order.
RECURSIVE MapMove(_, _, _, _, _)
MapMove(state, goal, moves, new_ids, k) ==
    IF k > Len(moves) THEN <<>>
    ELSE <<move(state, goal, moves[k], new_ids[k])>>
         \o MapMove(state, goal, moves, new_ids, k + 1)

expand(state, goal, new_ids) ==
    MapMove(state, goal, valid_moves(state.board_state_1d), new_ids, 1)

(***************************************************************************)
(* id(self).  CPython gives every live object a distinct address and       *)
(* promises nothing about their order.  The live PuzzleStates occupy       *)
(* addresses between lo and hi; AllocIds(k, lo, hi, budget) is the set of  *)
(* ways k objects constructed one after the other can be placed around     *)
(* them: each lands just above all live addresses or, at most budget       *)
(* times, just below all of them.                                          *)
(***************************************************************************)
MinOf(S) == CHOOSE x \in S : \A y \in S : x <= y

MaxOf(S) == 0 - MinOf({0 - x : x \in S})

\* A variant of AllocIds that places the k objects at one address.
AllocIds_one_address(k, lo, hi, budget) ==
    {[ids |-> [i \in 1..k |-> hi + 1], budget |-> budget]}

RECURSIVE AllocIds(_, _, _, _)
AllocIds(k, lo, hi, budget) ==
    IF k = 0 THEN {[ids |-> <<>>, budget |-> budget]}
    ELSE {[ids |-> <<hi + 1>> \o r.ids, budget |-> r.budget] :
              r \in AllocIds(k - 1, lo, hi + 1, budget)}
         \cup
         (IF budget > 0
          THEN {[ids |-> <<lo - 1>> \o r.ids, budget |-> r.budget] :
                   r \in AllocIds(k - 1, lo - 1, hi, budget - 1)}
          ELSE {})

\* The address of the first PuzzleState of a run (the goal node).
FirstId == MaxReuse + 1

(***************************************************************************)
(* get_parent_state: the first closed state whose id_no is the state's     *)
(* parent_id; Python falls off the loop and returns None otherwise.        *)
(***************************************************************************)
PyNone == [kind |-> "None"]

\* A variant of get_parent_state that finds no closed state.
get_parent_state_none(state, closed_list) == PyNone

\* A variant of get_parent_state that returns the first closed state
\* without looking at its id_no.
get_parent_state_first(state, closed_list) ==
    IF closed_list # <<>> THEN closed_list[1] ELSE PyNone

get_parent_state(state, closed_list) ==
    IF \E i \in 1..Len(closed_list) : closed_list[i].id_no = state.parent_id
    THEN closed_list[CHOOSE i \in 1..Len(closed_list) :
                        /\ closed_list[i].id_no = state.parent_id
                        /\ \A j \in 1..(i - 1) :
                              closed_list[j].id_no # state.parent_id]
    ELSE PyNone

(***************************************************************************)
(* get_state_path: from end_state up the parent links until depth 0.  The  *)
(* walk stops with the None in the path when a parent is missing (Python   *)
(* raises AttributeError on its next read of cur_state.depth).             *)
(***************************************************************************)
RECURSIVE PathFrom(_, _)
PathFrom(cur_state, closed_list) ==
    IF cur_state = PyNone THEN <<>>
    ELSE IF cur_state.depth = 0 THEN <<>>
    ELSE CHOOSE rest \in
            {<<parent_state>> \o PathFrom(parent_state, closed_list) :
                parent_state \in {get_parent_state(cur_state, closed_list)}} : TRUE

get_state_path(end_state, closed_list) ==
    <<end_state>> \o PathFrom(end_state, closed_list)

\* The walk met a missing parent.
GetStatePathRaises(p) == \E i \in 1..Len(p) : p[i] = PyNone

(***************************************************************************)
(* Input.  A line is a sequence of whitespace-separated tokens.  A token   *)
(* is an integer literal ("7"), a decimal literal ("7.5": whole 7, tenths  *)
(* 5) or a word that float() rejects.                                      *)
(***************************************************************************)
IntToken(n) == [kind |-> "int", whole |-> n, tenths |-> 0]

DecimalToken(n, d) == [kind |-> "decimal", whole |-> n, tenths |-> d]

WordToken == [kind |-> "word", whole |-> 0, tenths |-> 0]

\* int(float(s)) for a token float() accepts: the fraction is cut off.
IntOfFloat(tok) == tok.whole

\* to_int_arr: one integer per token, whatever the number of tokens.
to_int_arr(input_list) == [i \in 1..Len(input_list) |-> IntOfFloat(input_list[i])]

\* float(s) raises ValueError on a word.
ToIntArrRaises(input_list) ==
    \E i \in 1..Len(input_list) : input_list[i].kind = "word"

(***************************************************************************)
(* The legal slides of the puzzle, stated on cells: the blank changes      *)
(* place with a tile in an orthogonally adjacent cell of the 4x4 grid.     *)
(***************************************************************************)
Cells == 0..15

Adjacent(a, b) ==
    \/ ((a \div 4) = (b \div 4) /\ Abs((a % 4) - (b % 4)) = 1)
    \/ ((a % 4) = (b % 4) /\ Abs((a \div 4) - (b \div 4)) = 1)

SwapCells(b, x, y) ==
    [i \in 1..16 |-> IF i = x + 1 THEN b[y + 1]
                     ELSE IF i = y + 1 THEN b[x + 1] ELSE b[i]]

BlankCell(b) == CHOOSE c \in Cells : b[c + 1] = 0

Slides(b) == {SwapCells(b, BlankCell(b), t) : t \in {c \in Cells : Adjacent(BlankCell(b), c)}}

\* b2 is b1 after one legal slide.
LegalSlide(b1, b2) == b2 \in Slides(b1)

RECURSIVE WithinSlides(_, _)
WithinSlides(S, k) ==
    IF k = 0 THEN S
    ELSE WithinSlides(S \cup UNION {Slides(b) : b \in S}, k - 1)

\* The start boards of the model.
StartBoards == WithinSlides({goal_board_fixture}, MaxScramble)

LineOf(board) == [i \in 1..Len(board) |-> IntToken(board[i])]

\* A board one slide from the goal, typed with decimals.
DecimalLine ==
    [i \in 1..16 |->
        DecimalToken(SwapCells(goal_board_fixture, 15, 14)[i], 5)]

\* Fifteen tokens: the goal line without its last token.
ShortLine == SubSeq(LineOf(goal_board_fixture), 1, 15)

\* Sixteen tokens, one of them a word.
WordLine == [LineOf(goal_board_fixture) EXCEPT ![3] = WordToken]

StartLines == {LineOf(b) : b \in StartBoards} \cup {DecimalLine, ShortLine, WordLine}

GoalLines == {LineOf(goal_board_fixture), WordLine}

(***************************************************************************)
(* The open list: a heapq of tuples (priority, id_no, state).  heappop     *)
(* returns the least tuple; Python compares tuples left to right, so two   *)
(* tuples that agree on priority and id_no are compared on their           *)
(* PuzzleState, which defines no order (TypeError).  The array layout of   *)
(* the heap is not observable by solve, so open_list is the set of the     *)
(* tuples pushed and not yet popped.                                       *)
(***************************************************************************)
TupleLess(a, b) == a[1] < b[1] \/ (a[1] = b[1] /\ a[2] < b[2])

\* Two distinct tuples of the heap agree on (priority, id_no).
HeapCompareRaises(open_list) ==
    Cardinality({<<e[1], e[2]>> : e \in open_list}) # Cardinality(open_list)

HeapMin(open_list) ==
    CHOOSE e \in open_list : \A o \in open_list : o = e \/ TupleLess(e, o)

\* A variant of the bfs priority that puts the deeper node first, all nodes
\* three or more levels down alike.
Priority_deepest_first(method, new_state) ==
    CASE method = "bfs" -> 0 - Min2(new_state.depth, 3)
      [] method = "a_star_h1" -> new_state.f1_of_n
      [] method = "a_star_h2" -> new_state.f2_of_n

\* A variant of the bfs priority that uses the cost so far.
Priority_g(method, new_state) ==
    CASE method = "bfs" -> new_state.g_of_n
      [] method = "a_star_h1" -> new_state.f1_of_n
      [] method = "a_star_h2" -> new_state.f2_of_n

\* The priority of a pushed successor (lines 199-204).
Priority(method, new_state) ==
    CASE method = "bfs" -> new_state.depth
      [] method = "a_star_h1" -> new_state.f1_of_n
      [] method = "a_star_h2" -> new_state.f2_of_n

\* A variant of the goal test that asks for a heuristic of 0.
IsGoal_h1_zero(state, goal) == state.h1_of_n = 0

\* The goal test of line 187: the popped board equals goal_board.
IsGoal(state, goal) == state.board_state_1d = goal

(***************************************************************************)
(* State.                                                                  *)
(***************************************************************************)
VARIABLES
    pc,                 \* where the program is
    start_line,         \* the first line typed
    goal_line,          \* the second line typed
    start_board,        \* to_int_arr(start line)
    goal_board,         \* to_int_arr(goal line)
    method_idx,         \* which call of solve_all is running (1..3)
    goal_state,         \* solve: goal_state
    open_list,          \* solve: open_list
    closed_list,        \* solve: closed_list
    added_to_open_list, \* solve: added_to_open_list
    has_solved,         \* solve: has_solved
    cur_state,          \* solve: cur_state (None before the first pop)
    expansions,         \* solve: expansions of the last expand
    path,               \* print_success_message: path
    constructed,        \* PuzzleState objects constructed since the program started
    reuse_left          \* low addresses the allocator may still hand out in this run

vars == <<pc, start_line, goal_line, start_board, goal_board, method_idx,
          goal_state, open_list, closed_list, added_to_open_list, has_solved,
          cur_state, expansions, path, constructed, reuse_left>>

solve_vars == <<goal_state, open_list, closed_list, added_to_open_list,
                has_solved, cur_state, expansions, path, reuse_left>>

method == Methods[method_idx]

\* The ids of the PuzzleStates alive during the run.
LiveIds ==
    {goal_state.id_no} \cup {e[2] : e \in open_list}
    \cup {closed_list[i].id_no : i \in 1..Len(closed_list)}

Init ==
    /\ pc = "input"
    /\ start_line \in StartLines
    /\ goal_line \in GoalLines
    /\ start_board = <<>>
    /\ goal_board = <<>>
    /\ method_idx = 1
    /\ goal_state = PyNone
    /\ open_list = {}
    /\ closed_list = <<>>
    /\ added_to_open_list = 0
    /\ has_solved = FALSE
    /\ cur_state = PyNone
    /\ expansions = <<>>
    /\ path = <<>>
    /\ constructed = 0
    /\ reuse_left = MaxReuse

(***************************************************************************)
(* Lines 227-230: both lines are parsed, then solve_all is called.         *)
(***************************************************************************)
ParseInput ==
    /\ pc = "input"
    /\ IF ToIntArrRaises(start_line) \/ ToIntArrRaises(goal_line)
       THEN /\ pc' = "ValueError"
            /\ UNCHANGED <<start_board, goal_board>>
       ELSE /\ pc' = "solve_all"
            /\ start_board' = to_int_arr(start_line)
            /\ goal_board' = to_int_arr(goal_line)
    /\ UNCHANGED <<start_line, goal_line, method_idx, constructed>>
    /\ UNCHANGED solve_vars

(***************************************************************************)
(* solve, lines 178-184: the goal node, the start node, the first push.    *)
(***************************************************************************)
SolveBegin ==
    /\ pc = "solve_all"
    /\ \E a \in AllocIds(1, FirstId, FirstId, MaxReuse) :
          LET goal_node  == PuzzleState(FirstId, goal_board, NoGoal, NoParent, 0, 0)
              start_node == PuzzleState(a.ids[1], start_board, goal_board, NoParent, 0, 0)
          IN  IF PuzzleStateRaises(start_board, goal_board)
              THEN /\ pc' = "crashed"
                   /\ goal_state' = goal_node
                   /\ constructed' = constructed + 1
                   /\ open_list' = {}
                   /\ reuse_left' = MaxReuse
              ELSE /\ pc' = "loop"
                   /\ goal_state' = goal_node
                   /\ constructed' = constructed + 2
                   /\ open_list' = {<<0, start_node.id_no, start_node>>}
                   /\ reuse_left' = a.budget
    /\ closed_list' = <<>>
    /\ added_to_open_list' = 0
    /\ has_solved' = FALSE
    /\ cur_state' = PyNone
    /\ expansions' = <<>>
    /\ path' = <<>>
    /\ UNCHANGED <<start_line, goal_line, start_board, goal_board, method_idx>>

(***************************************************************************)
(* solve, lines 185-204: one iteration of the while loop.                  *)
(***************************************************************************)
SolveLoop ==
    /\ pc = "loop"
    /\ ~has_solved
    /\ IF open_list = {} \/ HeapCompareRaises(open_list)
       THEN /\ pc' = "crashed"
            /\ UNCHANGED <<open_list, closed_list, added_to_open_list, has_solved,
                           cur_state, expansions, path, constructed, reuse_left>>
       ELSE \E popped \in {HeapMin(open_list)} :
            \E cur \in {popped[3]} :
                IF IsGoal(cur, goal_board)
                THEN \E p \in {get_state_path(cur, closed_list)} :
                     /\ cur_state' = cur
                     /\ open_list' = open_list \ {popped}
                     /\ path' = p
                     /\ has_solved' = ~GetStatePathRaises(p)
                     /\ pc' = IF GetStatePathRaises(p) THEN "crashed" ELSE "solved"
                     /\ UNCHANGED <<closed_list, added_to_open_list, expansions,
                                    constructed, reuse_left>>
                ELSE IF ExpandRaises(cur)
                THEN /\ cur_state' = cur
                     /\ open_list' = open_list \ {popped}
                     /\ closed_list' = Append(closed_list, cur)
                     /\ pc' = "crashed"
                     /\ UNCHANGED <<added_to_open_list, has_solved, expansions,
                                    path, constructed, reuse_left>>
                ELSE \E live \in {LiveIds} :
                     \E a \in AllocIds(Len(valid_moves(cur.board_state_1d)),
                                       MinOf(live), MaxOf(live), reuse_left) :
                     \E exps \in {expand(cur, goal_board, a.ids)} :
                        /\ cur_state' = cur
                        /\ closed_list' = Append(closed_list, cur)
                        /\ expansions' = exps
                        /\ added_to_open_list' = added_to_open_list + Len(exps)
                        /\ open_list' = (open_list \ {popped}) \cup
                             {<<Priority(method, exps[k]), exps[k].id_no, exps[k]>> :
                                 k \in 1..Len(exps)}
                        /\ constructed' = constructed + Len(exps)
                        /\ reuse_left' = a.budget
                        /\ UNCHANGED <<has_solved, path, pc>>
    /\ UNCHANGED <<start_line, goal_line, start_board, goal_board, method_idx,
                   goal_state>>

(***************************************************************************)
(* solve returns; solve_all (lines 207-211) calls the next method.         *)
(***************************************************************************)
SolveReturn ==
    /\ pc = "solved"
    /\ IF method_idx < Len(Methods)
       THEN /\ method_idx' = method_idx + 1
            /\ pc' = "solve_all"
       ELSE /\ pc' = "done"
            /\ UNCHANGED method_idx
    /\ UNCHANGED <<start_line, goal_line, start_board, goal_board, constructed>>
    /\ UNCHANGED solve_vars

Next == ParseInput \/ SolveBegin \/ SolveLoop \/ SolveReturn

Spec == Init /\ [][Next]_vars

\* The interpreter runs the script to its end: no step that can be taken is
\* put off forever.  SolveLoop is enabled exactly when pc = "loop", where it
\* is the only step there is, and every step of it changes the state; its
\* weak fairness WF_vars(SolveLoop) is written out over that condition.
LoopFairness == []<>(pc # "loop") \/ []<><<pc = "loop">>_vars

FairSpec ==
    /\ Spec
    /\ WF_vars(ParseInput)
    /\ WF_vars(SolveBegin)
    /\ WF_vars(SolveReturn)
    /\ LoopFairness

\* The condition LoopFairness is written over is the enabling condition of
\* SolveLoop.
LoopEnabled == (pc = "loop") <=> ENABLED <<SolveLoop>>_vars

(***************************************************************************)
(* Definitions the properties are stated with.  They are written from the  *)
(* rules of the puzzle, not from the solver.                               *)
(***************************************************************************)
\* The weight of a tile: 1 for tiles 1-9, 10 for tiles 10-15.
TileWeight(tile) == IF tile >= 1 /\ tile <= 9 THEN 1 ELSE 10

\* A permutation of 0..15.
IsBoard(b) == Len(b) = 16 /\ \A v \in 0..15 : \E i \in 1..16 : b[i] = v

\* The nodes of the frontier and of the explored list.
FrontierNodes == {e[3] : e \in open_list}

ExploredNodes == {closed_list[i] : i \in 1..Len(closed_list)}

SearchNodes == FrontierNodes \cup ExploredNodes

\* The run is a search over boards (the input was sixteen cells each).
ValidRun == IsBoard(start_board) /\ IsBoard(goal_board)

\* The least number of slides from board b to board g, when it is at most
\* MaxScramble (MaxScramble + 1 otherwise).
MinMoves(b, g) ==
    IF \E k \in 0..MaxScramble : g \in WithinSlides({b}, k)
    THEN CHOOSE k \in 0..MaxScramble :
            /\ g \in WithinSlides({b}, k)
            /\ \A j \in 0..(k - 1) : g \notin WithinSlides({b}, j)
    ELSE MaxScramble + 1

\* The tile a slide from board p to board c moves: it sits in c where the
\* blank was in p.
MovedTile(p, c) == c[BlankCell(p) + 1]

\* The explored node a node names as its parent.
ParentOf(n) == CHOOSE q \in ExploredNodes : q.id_no = n.parent_id

C2_Terminates ==
    \A m \in 1..Len(Methods) :
        (pc = "loop" /\ method_idx = m /\ ValidRun)
            ~> (pc = "solved" /\ method_idx = m /\ has_solved
                /\ cur_state.board_state_1d = goal_board)

\* The third method has solved a board two slides from the goal.
C2_Witness ==
    /\ pc = "solved"
    /\ method = "a_star_h2"
    /\ cur_state.depth = 2

(***************************************************************************)
(* C3.  Under bfs the move count reported is the least number of slides    *)
(* that take the start board to the goal board.                            *)
(***************************************************************************)
C3_BfsFewestMoves ==
    (pc = "solved" /\ method = "bfs") =>
        Len(path) - 1 = MinMoves(start_board, goal_board)

\* bfs has solved a board that needs two slides.
C3_Witness ==
    /\ pc = "solved"
    /\ method = "bfs"
    /\ Len(path) - 1 = 2
    /\ MinMoves(start_board, goal_board) = 2

(***************************************************************************)
(* C4.  When the start board is the goal board, every method stops on the  *)
(* first pop and expands nothing: one node in the path (0 moves), no       *)
(* frontier insertion counted, an empty explored list.                     *)
(***************************************************************************)
C4_StartIsGoal ==
    (pc \in {"loop", "solved"} /\ start_board = goal_board) =>
        /\ added_to_open_list = 0
        /\ closed_list = <<>>
        /\ pc = "solved" => (Len(path) = 1 /\ open_list = {})

\* The third method has stopped on a start board equal to the goal board.
C4_Witness ==
    /\ pc = "solved"
    /\ start_board = goal_board
    /\ method = "a_star_h2"

ClaimKey(m, n) ==
    IF m = "bfs" THEN n.depth
    ELSE IF m = "a_star_h1" THEN n.g_of_n + n.h1_of_n
    ELSE n.g_of_n + n.h2_of_n

PairLeq(k1, i1, k2, i2) == k1 < k2 \/ (k1 = k2 /\ i1 <= i2)

C6_PopsLeastPair ==
    [][(pc = "loop" /\ ValidRun /\ open_list # {}) =>
          /\ \A x, y \in FrontierNodes : x.id_no = y.id_no => x = y
          /\ cur_state' \in FrontierNodes
          /\ cur_state' \notin {e[3] : e \in open_list'}
          /\ \A n \in FrontierNodes :
                PairLeq(ClaimKey(method, cur_state'), cur_state'.id_no,
                        ClaimKey(method, n), n.id_no)]_vars

\* A pop among several entries of equal key: the popped node was not the
\* only one of its depth in the frontier.
C6_Witness ==
    /\ pc = "loop"
    /\ method = "bfs"
    /\ cur_state # PyNone
    /\ \E n \in FrontierNodes : n.depth = cur_state.depth /\ n.id_no > cur_state.id_no
    /\ \E n \in FrontierNodes : n.depth = cur_state.depth + 1 /\ n.id_no < cur_state.id_no

ClaimOffsets(row, col) ==
    (IF row > 0 THEN <<-4>> ELSE <<>>) \o (IF row < 3 THEN <<4>> ELSE <<>>)
    \o (IF col > 0 THEN <<-1>> ELSE <<>>) \o (IF col < 3 THEN <<1>> ELSE <<>>)

OnBorders(row, col) ==
    (IF row = 0 \/ row = 3 THEN 1 ELSE 0) + (IF col = 0 \/ col = 3 THEN 1 ELSE 0)

C8_ExpandSuccessors ==
    (pc = "loop" /\ ValidRun /\ closed_list # <<>>) =>
        LET z    == BlankCell(cur_state.board_state_1d)
            offs == ClaimOffsets(z \div 4, z % 4)
        IN  /\ cur_state = closed_list[Len(closed_list)]
            /\ Len(expansions) = Len(offs)
            /\ Len(expansions) = 4 - OnBorders(z \div 4, z % 4)
            /\ \A k \in 1..Len(offs) :
                  /\ (z + offs[k]) \in Cells
                  /\ Adjacent(z, z + offs[k])
                  /\ expansions[k].board_state_1d =
                         SwapCells(cur_state.board_state_1d, z, z + offs[k])
                  /\ expansions[k].depth = cur_state.depth + 1
                  /\ expansions[k].parent_id = cur_state.id_no

\* Expansions of a corner blank (2 successors) and of an interior blank (4)
\* are both in the explored list, the last one being the interior one.
C8_Witness ==
    /\ pc = "loop"
    /\ Len(expansions) = 4
    /\ \E n \in ExploredNodes : Len(valid_moves(n.board_state_1d)) = 2
    /\ \E n \in ExploredNodes : Len(valid_moves(n.board_state_1d)) = 3

(***************************************************************************)
(* C9.  As claimed: h1 is inadmissible, some board B from which the goal   *)
(* G is reachable has h1(B, G) above the least total cost of a slide       *)
(* sequence from B to G.  The code's h1 is admissible instead: a tile that *)
(* is out of place must slide at least once and every slide costs the      *)
(* weight of the tile it moves, so the weights h1 adds up, minus 1, stay   *)
(* below the cost of every slide sequence to the goal.                     *)
(***************************************************************************)
\* The cost of the slide from board b to board t.
SlideCost(b, t) == TileWeight(MovedTile(b, t))

\* More than any sequence of at most MaxScramble slides costs.
Unreached == 10 * MaxScramble + 1

\* The least cost of a sequence of at most k slides from b to g.  For the
\* start boards, at most MaxScramble slides from the goal, such a sequence
\* moves each misplaced tile once, which no sequence can do for less.
RECURSIVE CheapestWithin(_, _, _)
CheapestWithin(b, g, k) ==
    IF b = g THEN 0
    ELSE IF k = 0 THEN Unreached
    ELSE LET costs == {Min2(Unreached, SlideCost(b, t) + CheapestWithin(t, g, k - 1)) :
                          t \in Slides(b)}
         IN  MinOf(costs)

\* The claim as made: for the goal board of a finished run, some start
\* board has h1 above the least cost.
C9_H1Inadmissible ==
    (pc = "done" /\ ValidRun) =>
        \E B \in StartBoards :
            estimated_cost_to_goal_h1(B, goal_board)
                > CheapestWithin(B, goal_board, MaxScramble)

\* As amended: h1 is admissible.  On every start board it is at most the
\* least cost minus 1; for every node n the search constructs, reached
\* from the start board by slides of total cost n.g, h1 between the two
\* boards is at most n.g - 1; and along every edge of the search tree
\* h1 drops by no more than the cost of the slide.
C9_H1Admissible ==
    /\ \A B \in StartBoards :
          estimated_cost_to_goal_h1(B, goal_board_fixture)
              <= CheapestWithin(B, goal_board_fixture, MaxScramble) - 1
    /\ (pc \in {"loop", "solved"} /\ ValidRun) =>
          \A n \in SearchNodes :
              /\ estimated_cost_to_goal_h1(start_board, n.board_state_1d)
                     <= n.g_of_n - 1
              /\ estimated_cost_to_goal_h1(n.board_state_1d, start_board)
                     <= n.g_of_n - 1
              /\ n.depth > 0 =>
                     ParentOf(n).h1_of_n
                         <= (n.g_of_n - ParentOf(n).g_of_n) + n.h1_of_n

\* A run solved at cost 20 from a start board whose h1 is 19.
C9_Witness ==
    /\ pc = "solved"
    /\ cur_state.g_of_n = 20
    /\ path[Len(path)].h1_of_n = 19
    /\ CheapestWithin(start_board, goal_board, MaxScramble) = 20

(***************************************************************************)
(* C10.  As claimed: an input line that is not exactly 16 integer tokens,  *)
(* or that holds a token that is no number, is rejected before any search  *)
(* starts: no PuzzleState is constructed and no method is run.             *)
(***************************************************************************)
SixteenIntegers(line) ==
    Len(line) = 16 /\ \A i \in 1..Len(line) : line[i].kind = "int"

C10_RejectsMalformedInput ==
    ~(SixteenIntegers(start_line) /\ SixteenIntegers(goal_line)) =>
        (constructed = 0 /\ pc \in {"input", "ValueError"})

(***************************************************************************)
(* C11.  For every board of a run (the start board, the goal board and the *)
(* board of every node of the frontier and of the explored list, each a    *)
(* permutation of 0..15), to_2d_array yields 4 rows of 4 cells with        *)
(* grid[r][c] = flat[4*r + c], and flatten of that grid is the flat board  *)
(* again.                                                                  *)
(***************************************************************************)
RunBoards ==
    {start_board, goal_board} \cup {n.board_state_1d : n \in SearchNodes}

C11_GridRoundTrip ==
    (pc # "input" /\ ValidRun) =>
        \A flat \in RunBoards :
            \A grid \in {to_2d_array(flat)} :
                /\ IsBoard(flat)
                /\ Len(grid) = 4
                /\ \A r \in 0..3 : Len(grid[r + 1]) = 4
                /\ \A r \in 0..3 : \A c \in 0..3 :
                      grid[r + 1][c + 1] = PyGet(flat, 4 * r + c)
                /\ flatten(grid) = flat

\* The explored list holds a node whose board is neither the start board
\* nor the goal board, and the round trip gives that board back.
C11_Witness ==
    /\ pc = "loop"
    /\ ValidRun
    /\ \E n \in ExploredNodes :
          /\ n.board_state_1d \notin {start_board, goal_board}
          /\ flatten(to_2d_array(n.board_state_1d)) = n.board_state_1d

(***************************************************************************)
(* C12.  In a run on boards, under each of the three methods, the frontier *)
(* is not empty when the loop is about to pop, and the pop finds a least   *)
(* entry; the last expansion pushed at least 2 successors, all of them in  *)
(* the frontier; the run never stops on an error, and when it has stopped  *)
(* the node it popped last has the goal board.                             *)
(***************************************************************************)
C12_FrontierNonEmpty ==
    (ValidRun /\ pc \notin {"input", "solve_all"}) =>
        /\ pc \in {"loop", "solved", "done"}
        /\ pc = "loop" => (open_list # {} /\ ~HeapCompareRaises(open_list))
        /\ (pc = "loop" /\ closed_list # <<>>) =>
              /\ Len(expansions) >= 2
              /\ \A k \in 1..Len(expansions) : expansions[k] \in FrontierNodes
              /\ \A j \in 1..Len(expansions) : \A k \in 1..Len(expansions) :
                    j # k => expansions[j] # expansions[k]
        /\ pc \in {"solved", "done"} =>
              (has_solved /\ cur_state.board_state_1d = goal_board)

\* After several expansions, the last one of a corner blank (2 successors,
\* the least there is), the frontier holds more nodes than the last
\* expansion pushed.
C12_Witness ==
    /\ pc = "loop"
    /\ ValidRun
    /\ Len(closed_list) >= 3
    /\ Len(expansions) = 2
    /\ Cardinality(open_list) > 2

(***************************************************************************)
(* C13.  In a run on boards, every node of depth > 0 that is in the        *)
(* frontier, in the explored list or was popped last has a parent_id that  *)
(* is the identifier of exactly one entry of the explored list, a node one *)
(* level up.  So get_parent_state never returns None in get_state_path:    *)
(* the walk from such a node has depth + 1 nodes, each one level above the *)
(* one before, and ends on a node of depth 0.                              *)
(***************************************************************************)
\* The nodes the run holds: frontier, explored list and the node popped last.
HeldNodes == SearchNodes \cup (IF cur_state = PyNone THEN {} ELSE {cur_state})

\* The places of the explored list whose node has the identifier id.
ExploredAt(id) == {i \in 1..Len(closed_list) : closed_list[i].id_no = id}

C13_ParentIsExplored ==
    (pc \in {"loop", "solved"} /\ ValidRun) =>
        \A n \in HeldNodes :
            /\ n.depth >= 0
            /\ n.depth > 0 =>
                  /\ Cardinality(ExploredAt(n.parent_id)) = 1
                  /\ \A i \in ExploredAt(n.parent_id) :
                        closed_list[i].depth = n.depth - 1
                  /\ get_parent_state(n, closed_list) # PyNone
            /\ \A walk \in {get_state_path(n, closed_list)} :
                  /\ ~GetStatePathRaises(walk)
                  /\ Len(walk) = n.depth + 1
                  /\ \A i \in 1..Len(walk) : walk[i].depth = n.depth - (i - 1)
                  /\ walk[Len(walk)].depth = 0

\* a_star_h1 has solved a board in two moves: the walk from the solved
\* node looked up two parents among several explored nodes.
C13_Witness ==
    /\ pc = "solved"
    /\ method = "a_star_h1"
    /\ cur_state.depth = 2
    /\ Len(closed_list) >= 2
    /\ get_parent_state(get_parent_state(cur_state, closed_list), closed_list).depth = 0

(***************************************************************************)
(* C14.  The search suppresses no duplicate: when a node has been          *)
(* expanded, every board one legal slide away from its board is the board  *)
(* of one of the successors, and every successor is in the frontier,       *)
(* whether or not a node of the same board is in the frontier or in the    *)
(* explored list already.  In particular the expansion of a node of        *)
(* depth > 0 pushes a node with the board of its parent, which is in the   *)
(* explored list.                                                          *)
(***************************************************************************)
C14_NoDuplicateSuppression ==
    (pc = "loop" /\ ValidRun /\ closed_list # <<>>) =>
        /\ \A t \in Slides(cur_state.board_state_1d) :
              \E k \in 1..Len(expansions) :
                  /\ expansions[k].board_state_1d = t
                  /\ expansions[k] \in FrontierNodes
        /\ Len(expansions) = Cardinality(Slides(cur_state.board_state_1d))
        /\ cur_state.depth > 0 =>
              \E k \in 1..Len(expansions) :
                  /\ expansions[k].board_state_1d = ParentOf(cur_state).board_state_1d
                  /\ expansions[k] \in FrontierNodes
                  /\ expansions[k] \notin ExploredNodes

\* The explored list holds two nodes with the start board: the root and a
\* node of depth 2 that the move reversing the previous one made.
C14_Witness ==
    /\ pc = "loop"
    /\ ValidRun
    /\ \E i \in 1..Len(closed_list) : \E j \in 1..Len(closed_list) :
          /\ closed_list[i].depth = 0
          /\ closed_list[j].depth = 2
          /\ closed_list[i].id_no # closed_list[j].id_no
          /\ closed_list[i].board_state_1d = start_board
          /\ closed_list[j].board_state_1d = start_board

(***************************************************************************)
(* C15.  As claimed: identifiers follow the order of construction, so      *)
(* among frontier entries of equal priority key the node constructed       *)
(* earlier is popped first.  The code takes id(self), an address: it is    *)
(* distinct among the nodes a run holds and follows no order, so a node    *)
(* constructed later can carry the smaller identifier and be popped first. *)
(***************************************************************************)
\* The successors pushed by the last expansion.
LastPushed == {expansions[k] : k \in 1..Len(expansions)}

\* The place of a successor among its siblings: expand constructs them in
\* the order up, down, left, right of the blank.
SiblingPlace(n) ==
    LET d == BlankCell(n.board_state_1d) - BlankCell(ParentOf(n).board_state_1d)
    IN  IF d = -4 THEN 1 ELSE IF d = 4 THEN 2 ELSE IF d = -1 THEN 3 ELSE 4

\* The place of the parent of n in the explored list (the order of the
\* expansions).
ParentPlace(n) == CHOOSE i \in 1..Len(closed_list) : closed_list[i].id_no = n.parent_id

\* Node a was constructed before node b (both successors: the root is
\* constructed before every one of them).
ConstructedBefore(a, b) ==
    \/ ParentPlace(a) < ParentPlace(b)
    \/ (ParentPlace(a) = ParentPlace(b) /\ SiblingPlace(a) < SiblingPlace(b))

\* The frontier entries the last pop left behind.
LeftBehind == {n \in FrontierNodes \ LastPushed : n.depth > 0}

\* The claim as made: identifiers grow with the order of construction, and
\* the node popped last was constructed before every node of equal key the
\* pop left in the frontier.
C15_EarlierPoppedFirst ==
    (pc = "loop" /\ ValidRun /\ cur_state # PyNone) =>
        /\ \A a \in HeldNodes : \A b \in HeldNodes :
              (a.depth > 0 /\ b.depth > 0 /\ ConstructedBefore(a, b)) =>
                  a.id_no < b.id_no
        /\ cur_state.depth > 0 =>
              \A n \in LeftBehind :
                  ClaimKey(method, n) = ClaimKey(method, cur_state) =>
                      ConstructedBefore(cur_state, n)

\* As amended: the identifiers of the nodes a run holds (and of its goal
\* node) are pairwise distinct, and the node popped last has a smaller
\* identifier than every node of equal key the pop left in the frontier,
\* whichever of them was constructed first.
C15_SmallerIdPoppedFirst ==
    (pc = "loop" /\ ValidRun) =>
        /\ \A a \in HeldNodes : \A b \in HeldNodes : a.id_no = b.id_no => a = b
        /\ \A a \in HeldNodes : a.id_no # goal_state.id_no
        /\ cur_state # PyNone =>
              \A n \in FrontierNodes \ LastPushed :
                  ClaimKey(method, n) = ClaimKey(method, cur_state) =>
                      cur_state.id_no < n.id_no

\* The node popped last was constructed after a node of equal key that it
\* left in the frontier.
C15_Witness ==
    /\ pc = "loop"
    /\ ValidRun
    /\ cur_state # PyNone
    /\ cur_state.depth > 0
    /\ \E n \in LeftBehind :
          /\ ClaimKey(method, n) = ClaimKey(method, cur_state)
          /\ ConstructedBefore(n, cur_state)
          /\ cur_state.id_no < n.id_no

(***************************************************************************)
(* C16.  In a run whose start board is a permutation of 0..15, every node  *)
(* of the frontier and of the explored list (and the node popped last) has *)
(* a board that is a permutation of 0..15 with exactly one blank, and the  *)
(* row and column find returns for the blank agree with the flat index of  *)
(* the blank that move works with: index = 4 * row + col.                  *)
(***************************************************************************)
C16_BoardsArePermutations ==
    (pc \in {"loop", "solved"} /\ IsBoard(start_board) /\ IsBoard(goal_board)) =>
        \A n \in HeldNodes :
            \A b \in {n.board_state_1d} :
                /\ IsBoard(b)
                /\ \A v \in 0..15 : Cardinality({i \in 1..16 : b[i] = v}) = 1
                /\ \A z \in {find(b, 0)} :
                      /\ z.kind = "ok"
                      /\ z.row \in 0..3
                      /\ z.col \in 0..3
                      /\ IndexOfZero(b) = 4 * z.row + z.col
                      /\ PyGet(b, 4 * z.row + z.col) = 0

\* The run holds nodes with the blank in a corner, on an edge and inside
\* the grid.
C16_Witness ==
    /\ pc = "loop"
    /\ ValidRun
    /\ \E n \in SearchNodes : Len(valid_moves(n.board_state_1d)) = 2
                              /\ IndexOfZero(n.board_state_1d) = 15
    /\ \E n \in SearchNodes : Len(valid_moves(n.board_state_1d)) = 3
    /\ \E n \in SearchNodes : Len(valid_moves(n.board_state_1d)) = 4
                              /\ find(n.board_state_1d, 0).row = 2

(***************************************************************************)
(* C17.  A step of the loop changes no node that exists.  The explored     *)
(* list only grows at its end: after the step its old entries are where    *)
(* they were, with every field as it was.  Every frontier entry but the    *)
(* popped one is in the frontier after the step, priority, identifier and  *)
(* node as they were.  When the step expands node n, n is appended to the  *)
(* explored list as it was in the frontier (board, g, h1, h2, f1, f2,      *)
(* depth, parent_id), and each successor is a new node whose board differs *)
(* from the board of n and from the board of every other successor.        *)
(***************************************************************************)
C17_ExpandChangesNoNode ==
    [][(pc = "loop" /\ ValidRun /\ open_list # {}) =>
          /\ Len(closed_list') >= Len(closed_list)
          /\ SubSeq(closed_list', 1, Len(closed_list)) = closed_list
          /\ cur_state' \in FrontierNodes
          /\ \A e \in open_list : e[3] # cur_state' => e \in open_list'
          /\ Len(closed_list') > Len(closed_list) =>
                /\ closed_list' = Append(closed_list, cur_state')
                /\ \A k \in 1..Len(expansions') :
                      /\ expansions'[k] \notin SearchNodes
                      /\ expansions'[k].id_no \notin {n.id_no : n \in SearchNodes}
                      /\ expansions'[k].board_state_1d # cur_state'.board_state_1d
                      /\ \A j \in 1..Len(expansions') :
                            j # k => expansions'[j].board_state_1d
                                         # expansions'[k].board_state_1d]_vars

\* An expansion of a node with four successors has been appended behind
\* three explored nodes, and the frontier holds nodes older than the
\* successors.
C17_Witness ==
    /\ pc = "loop"
    /\ ValidRun
    /\ Len(closed_list) >= 4
    /\ Len(expansions) = 4
    /\ closed_list[Len(closed_list)] = cur_state
    /\ FrontierNodes \ LastPushed # {}

(***************************************************************************)
(* C18.  Under a_star_h2, when solve stops as solved, the g of the solved  *)
(* node is the least total cost (sum of the weights of the tiles moved) of *)
(* a sequence of legal slides from the start board to the goal board.  It  *)
(* rests on h2, the weighted Manhattan distance of tiles 1..15, which is 0 *)
(* on the goal board, never drops along a slide by more than the slide     *)
(* costs, and so never exceeds the cost that remains; and on the goal test *)
(* at the pop: the solved node is the node popped last, and no entry left  *)
(* in the frontier has a smaller f2.                                       *)
(***************************************************************************)
\* The cell of tile t on board b.
CellOf(b, t) == CHOOSE c \in Cells : b[c + 1] = t

\* The number of slides tile t needs at least between its cells on b and g.
Manhattan(b, g, t) ==
    Abs((CellOf(b, t) \div 4) - (CellOf(g, t) \div 4))
    + Abs((CellOf(b, t) % 4) - (CellOf(g, t) % 4))

RECURSIVE WeightedManhattan(_, _, _)
WeightedManhattan(b, g, t) ==
    IF t > 15 THEN 0
    ELSE TileWeight(t) * Manhattan(b, g, t) + WeightedManhattan(b, g, t + 1)

C18_AStarH2LeastCost ==
    /\ (pc = "solved" /\ method = "a_star_h2" /\ ValidRun) =>
          /\ cur_state.board_state_1d = goal_board
          /\ cur_state.g_of_n
                 = CheapestWithin(start_board, goal_board, MaxScramble)
          /\ \A n \in FrontierNodes :
                cur_state.g_of_n <= n.g_of_n + n.h2_of_n
    /\ (pc = "loop" /\ ValidRun /\ closed_list # <<>>) =>
          \A n \in LastPushed \cup {cur_state} :
              /\ n.h2_of_n = WeightedManhattan(n.board_state_1d, goal_board, 1)
              /\ n.f2_of_n = n.g_of_n + n.h2_of_n
              /\ n.board_state_1d = goal_board => n.h2_of_n = 0
              /\ n.h2_of_n >= 0
              /\ n \in LastPushed =>
                    /\ n.g_of_n = cur_state.g_of_n
                          + SlideCost(cur_state.board_state_1d, n.board_state_1d)
                    /\ cur_state.h2_of_n <= n.h2_of_n
                          + SlideCost(cur_state.board_state_1d, n.board_state_1d)
                    /\ n.h2_of_n <= cur_state.h2_of_n
                          + SlideCost(cur_state.board_state_1d, n.board_state_1d)
    /\ (pc = "loop" /\ ValidRun) =>
          \A n \in FrontierNodes :
              CheapestWithin(n.board_state_1d, goal_board, MaxScramble) < Unreached
                  => n.h2_of_n <= CheapestWithin(n.board_state_1d, goal_board,
                                                 MaxScramble)

\* a_star_h2 has solved, at cost 11, a board two slides from the goal, one
\* of a tile of weight 10 and one of a tile of weight 1, and left nodes in
\* the frontier.
C18_Witness ==
    /\ pc = "solved"
    /\ method = "a_star_h2"
    /\ cur_state.depth = 2
    /\ cur_state.g_of_n = 11
    /\ CheapestWithin(start_board, goal_board, MaxScramble) = 11
    /\ open_list # {}

(***************************************************************************)
(* C19.  At the top of the loop, and when solve has stopped as solved, the *)
(* nodes of the run are accounted for:                                     *)
(*   added_to_open_list + 1 = entries of the frontier + nodes of the       *)
(*   explored list + (1 if a goal node has been popped, else 0).           *)
(* The counter is the number of successors pushed, one for each legal      *)
(* slide of each explored board; the root is not counted.  Every node the  *)
(* run created is in exactly one of the frontier, the explored list and    *)
(* the solved slot.                                                        *)
(***************************************************************************)
\* The number of legal slides of the boards of the first k explored nodes.
RECURSIVE SlidesOfExplored(_)
SlidesOfExplored(k) ==
    IF k = 0 THEN 0
    ELSE Cardinality(Slides(closed_list[k].board_state_1d)) + SlidesOfExplored(k - 1)

\* The node in the solved slot, if there is one.
SolvedSlot == IF has_solved THEN {cur_state} ELSE {}

C19_NodeAccounting ==
    (pc \in {"loop", "solved"} /\ ValidRun) =>
        /\ has_solved <=> pc = "solved"
        /\ added_to_open_list + 1
               = Cardinality(open_list) + Len(closed_list)
                 + (IF has_solved THEN 1 ELSE 0)
        /\ added_to_open_list = SlidesOfExplored(Len(closed_list))
        /\ Cardinality(FrontierNodes) = Cardinality(open_list)
        /\ Cardinality(ExploredNodes) = Len(closed_list)
        /\ FrontierNodes \cap ExploredNodes = {}
        /\ SolvedSlot \cap (FrontierNodes \cup ExploredNodes) = {}
        /\ Cardinality({n.id_no : n \in SearchNodes \cup SolvedSlot})
               = added_to_open_list + 1
        /\ Cardinality({n \in SearchNodes \cup SolvedSlot : n.depth = 0}) = 1

\* A solved run that pushed ten successors or more: the goal node is in
\* the solved slot, the others in the frontier and in the explored list.
C19_Witness ==
    /\ pc = "solved"
    /\ ValidRun
    /\ added_to_open_list >= 10
    /\ Len(closed_list) >= 3
    /\ Cardinality(open_list) + Len(closed_list) = added_to_open_list

====
